---- MODULE Spec2Model ----
(***************************************************************************)
(* Graph execution engine of backend/executor.py: execute_graph with its   *)
(* nested get_node_result and progress_callback, the input validator       *)
(* validate_and_prepare_inputs, the telemetry task run_system_monitor, and *)
(* the node classes of backend/nodes/ome_zarr_flow.py that the registry    *)
(* hands to the engine.                                                    *)
(*                                                                         *)
(* A behaviour is the runs of execute_graph that one connection requests,  *)
(* one after the other.  The asyncio loop is a FIFO                        *)
(* queue of ready callbacks (ready); at most one task holds the loop       *)
(* (running); the default executor's thread is the record worker, whose    *)
(* steps interleave freely with the loop's.                                *)
(***************************************************************************)
EXTENDS Integers, Sequences, FiniteSets, TLC

(***************************************************************************)
(* Bounds of the model.                                                    *)
(***************************************************************************)
\* frames of get_node_result the interpreter allows before RecursionError
MaxDepth == 4
\* telemetry messages the monitor task sends in one run
MaxLogs == 2
\* chunks (dask tasks) of the array a writer stores
MaxDaskTasks == 1
\* execute_graph requests that one connection receives
MaxRuns == 2

(***************************************************************************)
(* Python values.  Every value is a record tagged by t.                    *)
(***************************************************************************)
None == [t |-> "none"]
IntV(i) == [t |-> "int", i |-> i]
\* a str is its sequence of characters
StrV(cs) == [t |-> "str", cs |-> cs]
\* a float sig / 10^scale
FltV(sig, scale) == [t |-> "float", sig |-> sig, scale |-> scale]
\* a list literal of the request's JSON
ListV(xs) == [t |-> "list", xs |-> xs]
\* a tuple returned by a handler
TupleV(xs) == [t |-> "tuple", xs |-> xs]
\* a dask array, identified by the computation that defines it
ArrV(of) == [t |-> "arr", of |-> of]
\* a metadata dict of the reader, identified by its source_path
DictV(path) == [t |-> "dict", path |-> path]
\* the graph key of a node, as it appears in a reference (a str whose
\* characters are not modelled)
KeyV(id) == [t |-> "key", id |-> id]

IsNone(v) == v.t = "none"
IsEmptyStr(v) == v.t = "str" /\ v.cs = <<>>

(***************************************************************************)
(* int(val) and float(val) of the coercion pass.  A conversion yields      *)
(* [ok |-> TRUE, v |-> value] or, where Python raises, [ok |-> FALSE].     *)
(***************************************************************************)
Digits == <<"0", "1", "2", "3", "4", "5", "6", "7", "8", "9">>
IsDigit(c) == \E d \in 1..10 : Digits[d] = c
DigitVal(c) == (CHOOSE d \in 1..10 : Digits[d] = c) - 1

RECURSIVE Pow10(_)
Pow10(n) == IF n = 0 THEN 1 ELSE 10 * Pow10(n - 1)

RECURSIVE DigitsVal(_)
DigitsVal(cs) ==
    IF cs = <<>> THEN 0
    ELSE 10 * DigitsVal(SubSeq(cs, 1, Len(cs) - 1)) + DigitVal(cs[Len(cs)])

RECURSIVE Strip(_)
\* str.strip() over the blank " "
Strip(cs) ==
    IF cs = <<>> THEN cs
    ELSE IF cs[1] = " " THEN Strip(Tail(cs))
    ELSE IF cs[Len(cs)] = " " THEN Strip(SubSeq(cs, 1, Len(cs) - 1))
    ELSE cs

HasSign(cs) == cs # <<>> /\ cs[1] \in {"+", "-"}
Unsigned(cs) == IF HasSign(cs) THEN Tail(cs) ELSE cs
SignOf(cs) == IF cs # <<>> /\ cs[1] = "-" THEN -1 ELSE 1
AllDigits(cs) == \A k \in 1..Len(cs) : IsDigit(cs[k])

\* truncation toward zero of n / d, d > 0
TruncDiv(n, d) == IF n >= 0 THEN n \div d ELSE -((-n) \div d)

ParseInt(cs) ==
    LET body == Unsigned(Strip(cs))
    IN  IF body # <<>> /\ AllDigits(body)
        THEN [ok |-> TRUE, v |-> IntV(SignOf(Strip(cs)) * DigitsVal(body))]
        ELSE [ok |-> FALSE]

RECURSIVE NormFlt(_, _)
\* one representation per number: no trailing zero in the fraction
NormFlt(sig, scale) ==
    IF scale > 0 /\ sig % 10 = 0 THEN NormFlt(sig \div 10, scale - 1)
    ELSE FltV(sig, scale)

ParseFloat(cs) ==
    LET body == Unsigned(Strip(cs))
        dots == {k \in 1..Len(body) : body[k] = "."}
        dot  == IF dots = {} THEN Len(body) + 1 ELSE CHOOSE k \in dots : TRUE
        whole == SubSeq(body, 1, dot - 1)
        frac  == SubSeq(body, dot + 1, Len(body))
    IN  IF Cardinality(dots) <= 1 /\ AllDigits(whole) /\ AllDigits(frac)
           /\ Len(whole) + Len(frac) > 0
        THEN [ok |-> TRUE,
              v |-> LET m == SignOf(Strip(cs)) * DigitsVal(whole \o frac)
                    IN  IF m >= 0 THEN NormFlt(m, Len(frac))
                        ELSE LET p == NormFlt(-m, Len(frac))
                             IN  FltV(-p.sig, p.scale)]
        ELSE [ok |-> FALSE]

\* int(val) for a str, int or float
PyInt(v) ==
    CASE v.t = "int"   -> [ok |-> TRUE, v |-> v]
      [] v.t = "float" -> [ok |-> TRUE, v |-> IntV(TruncDiv(v.sig, Pow10(v.scale)))]
      [] v.t = "str"   -> ParseInt(v.cs)
      [] OTHER         -> [ok |-> FALSE]

\* float(val) for a str, int or float
PyFloat(v) ==
    CASE v.t = "int"   -> [ok |-> TRUE, v |-> FltV(v.i, 0)]
      [] v.t = "float" -> [ok |-> TRUE, v |-> v]
      [] v.t = "str"   -> ParseFloat(v.cs)
      [] OTHER         -> [ok |-> FALSE]

(***************************************************************************)
(* The registry.  A node class is its INPUT_TYPES (required and optional   *)
(* parameters in declaration order), its OUTPUT_NODE flag, and its         *)
(* FUNCTION: whether it is a coroutine function and which parameters its   *)
(* signature names.  A parameter's config is its type (a tag, or "ENUM"    *)
(* with the list of choices) and the default of its meta dict, if any.     *)
(***************************************************************************)
Param(name, tag) ==
    [name |-> name, tag |-> tag, choices |-> <<>>, hasDefault |-> FALSE, default |-> None]
ParamDefault(name, tag, d) ==
    [name |-> name, tag |-> tag, choices |-> <<>>, hasDefault |-> TRUE, default |-> d]
ParamEnum(name, choices) ==
    [name |-> name, tag |-> "ENUM", choices |-> choices, hasDefault |-> FALSE, default |-> None]

OMEZarrReader ==
    [required |-> << ParamDefault("file_path", "STRING", StrV(<<>>)),
                     ParamDefault("chunk_multiple", "INT", IntV(1)) >>,
     optional |-> <<>>,
     OUTPUT_NODE |-> FALSE,
     coroutine |-> FALSE,
     params |-> {"file_path", "chunk_multiple"}]

OMEZarrFilter ==
    [required |-> << Param("dask_arr", "DASK_ARRAY"),
                     ParamEnum("algorithm", << StrV(<<"gaussian">>), StrV(<<"median">>),
                                               StrV(<<"sobel">>), StrV(<<"invert">>) >>),
                     ParamDefault("sigma", "FLOAT", FltV(1, 0)) >>,
     optional |-> <<>>,
     OUTPUT_NODE |-> FALSE,
     coroutine |-> FALSE,
     params |-> {"dask_arr", "algorithm", "sigma"}]

OMEZarrWriter ==
    [required |-> << Param("dask_arr", "DASK_ARRAY"),
                     Param("metadata", "DICT"),
                     ParamEnum("compression", << StrV(<<"default">>), StrV(<<"zstd">>) >>) >>,
     optional |-> << ParamDefault("output_path", "STRING", StrV(<<>>)) >>,
     OUTPUT_NODE |-> TRUE,
     coroutine |-> TRUE,
     params |-> {"dask_arr", "metadata", "compression", "output_path", "callback"}]

\* The two plugin classes of the end-to-end scenario: Const returns its
\* value; AddOne is terminal, runs on the worker pool and takes the
\* progress callback.
Const ==
    [required |-> << Param("value", "INT") >>,
     optional |-> <<>>,
     OUTPUT_NODE |-> FALSE,
     coroutine |-> FALSE,
     params |-> {"value"}]

AddOne ==
    [required |-> << Param("x", "INT") >>,
     optional |-> <<>>,
     OUTPUT_NODE |-> TRUE,
     coroutine |-> FALSE,
     params |-> {"x", "callback"}]

NODE_CLASS_MAPPINGS ==
    [n \in {"OMEZarrReader", "OMEZarrFilter", "OMEZarrWriter", "Const", "AddOne"} |->
        CASE n = "OMEZarrReader" -> OMEZarrReader
          [] n = "OMEZarrFilter" -> OMEZarrFilter
          [] n = "OMEZarrWriter" -> OMEZarrWriter
          [] n = "Const"         -> Const
          [] n = "AddOne"        -> AddOne]

(***************************************************************************)
(* validate_and_prepare_inputs(node_cls, raw_inputs).  raw_inputs is a     *)
(* function from the supplied names to values; raw_inputs.get(name) is     *)
(* None for a name it lacks.                                               *)
(***************************************************************************)
Get(raw, name) == IF name \in DOMAIN raw THEN raw[name] ELSE None

IsEmpty(v) == IsNone(v) \/ IsEmptyStr(v)

\* the value of a required parameter after the default is tried
RequiredVal(config, raw) ==
    LET val == Get(raw, config.name)
    IN  IF IsEmpty(val)
        THEN IF config.hasDefault THEN config.default
             ELSE IF config.tag = "ENUM" /\ Len(config.choices) > 0 THEN config.choices[1]
             ELSE val
        ELSE val

\* a check that rejects an empty required parameter of any type
RequiredRaisesAnyType(config, raw) == IsEmpty(RequiredVal(config, raw))

\* the check that raises ValueError for a required parameter
RequiredRaises(config, raw) ==
    IsEmpty(RequiredVal(config, raw)) /\ config.tag = "STRING"

\* an optional pass that ignores the defaults of the schema
OptionalValAsSupplied(config, raw) == Get(raw, config.name)

\* the value of an optional parameter
OptionalVal(config, raw) ==
    LET val == Get(raw, config.name)
    IN  IF IsNone(val) /\ config.hasDefault THEN config.default ELSE val

Names(defs) == {defs[k].name : k \in 1..Len(defs)}
\* dict lookup by name: the last config declared under the name
Config(defs, name) ==
    defs[CHOOSE k \in 1..Len(defs) :
            /\ defs[k].name = name
            /\ \A j \in (k+1)..Len(defs) : defs[j].name # name]

\* a conversion that does not catch what int() and float() raise: the
\* value is lost with the failure
CoerceOrNone(tag, val) ==
    IF val.t \in {"str", "int", "float"}
    THEN CASE tag = "INT"   -> IF PyInt(val).ok THEN PyInt(val).v ELSE None
           [] tag = "FLOAT" -> IF PyFloat(val).ok THEN PyFloat(val).v ELSE None
           [] OTHER         -> val
    ELSE val

\* the type conversion of one value of final_inputs
Coerce(tag, val) ==
    IF val.t \in {"str", "int", "float"}
    THEN CASE tag = "INT"   -> IF PyInt(val).ok THEN PyInt(val).v ELSE val
           [] tag = "FLOAT" -> IF PyFloat(val).ok THEN PyFloat(val).v ELSE val
           [] OTHER         -> val
    ELSE val

\* [ok |-> TRUE, args |-> final_inputs], or [ok |-> FALSE, name |-> the
\* required parameter the ValueError names]
validate_and_prepare_inputs(node_cls, raw_inputs) ==
    LET required_defs == node_cls.required
        optional_defs == node_cls.optional
        failing == {k \in 1..Len(required_defs) : RequiredRaises(required_defs[k], raw_inputs)}
        filled == [name \in Names(required_defs) \cup Names(optional_defs) |->
                     IF name \in Names(optional_defs)
                     THEN OptionalVal(Config(optional_defs, name), raw_inputs)
                     ELSE RequiredVal(Config(required_defs, name), raw_inputs)]
        def_info(name) == IF name \in Names(required_defs)
                          THEN Config(required_defs, name)
                          ELSE Config(optional_defs, name)
    IN  IF failing # {}
        THEN [ok |-> FALSE,
              name |-> required_defs[CHOOSE k \in failing : \A j \in failing : k <= j].name]
        ELSE [ok |-> TRUE,
              args |-> [name \in DOMAIN filled |-> Coerce(def_info(name).tag, filled[name])]]

(***************************************************************************)
(* The handlers.  An outcome is a returned value or a raised exception.    *)
(***************************************************************************)
\* an exception object, by the name of its class
Exc(kind) == [t |-> "exc", kind |-> kind]
Returns(v) == [raises |-> FALSE, v |-> v]
Raises(kind) == [raises |-> TRUE, e |-> Exc(kind)]

IsNumber(v) == v.t \in {"int", "float"}
\* bool(v) is False
Falsy(v) ==
    \/ IsNone(v)
    \/ IsEmptyStr(v)
    \/ (v.t = "int" /\ v.i = 0)
    \/ (v.t = "float" /\ v.sig = 0)
    \/ (v.t \in {"list", "tuple"} /\ v.xs = <<>>)

\* OMEZarrReader.load_zarr: the file may be missing or unreadable
load_zarr(args) ==
    LET file_path == args["file_path"]
    IN  IF Falsy(file_path) THEN {Raises("ValueError")}
        ELSE IF file_path.t # "str" THEN {Raises("AttributeError")}
        ELSE IF ~IsNumber(args["chunk_multiple"])
        THEN {Raises("FileNotFoundError"), Raises("TypeError")}
        ELSE {Raises("FileNotFoundError"),
              Returns(TupleV(<< ArrV([op |-> "from_zarr", path |-> file_path.cs]),
                                DictV(file_path.cs) >>))}

\* OMEZarrFilter.apply_filter
apply_filter(args) ==
    IF ~IsNumber(args["sigma"]) THEN {Raises("TypeError")}
    ELSE IF args["dask_arr"].t # "arr" THEN {Raises("AttributeError")}
    ELSE {Returns(TupleV(<< ArrV([op |-> "map_overlap", algo |-> args["algorithm"],
                                  s |-> args["sigma"], arr |-> args["dask_arr"]]) >>))}

\* OMEZarrWriter.save_zarr up to its await: None, or the exception raised
\* while the output path is derived from the metadata
save_zarr_path(args) ==
    LET metadata == IF IsNone(args["metadata"]) THEN DictV(<<>>) ELSE args["metadata"]
        output_path == args["output_path"]
    IN  IF output_path.t \notin {"none", "str"} /\ ~Falsy(output_path)
        THEN Raises("AttributeError")
        ELSE IF (Falsy(output_path) \/ Strip(output_path.cs) = <<>>) /\ metadata.t # "dict"
        THEN Raises("AttributeError")
        ELSE IF ~(Falsy(output_path) \/ Strip(output_path.cs) = <<>>)
        THEN Returns(StrV(output_path.cs))
        ELSE IF metadata.path # <<>>
        THEN Returns(StrV(metadata.path \o <<"_processed.zarr">>))
        ELSE Returns(StrV(<<"output_processed.zarr">>))

\* run_dask fails before any task is computed when dask_arr is no array
run_dask_starts(args) == args["dask_arr"].t = "arr"

\* Const.execute
const_execute(args) == {Returns(args["value"])}

\* AddOne.execute
add_one_execute(args) ==
    LET x == args["x"]
    IN  CASE x.t = "int"   -> {Returns(IntV(x.i + 1))}
          [] x.t = "float" -> {Returns(FltV(x.sig + Pow10(x.scale), x.scale))}
          [] OTHER         -> {Raises("TypeError")}

\* the outcomes of a handler that runs on the worker pool
SyncOutcomes(class_name, args) ==
    CASE class_name = "OMEZarrReader" -> load_zarr(args)
      [] class_name = "OMEZarrFilter" -> apply_filter(args)
      [] class_name = "Const"         -> const_execute(args)
      [] class_name = "AddOne"        -> add_one_execute(args)

(***************************************************************************)
(* The graphs of the model.  A graph is its keys in declaration order and  *)
(* a descriptor per key; a descriptor is its type (hasType is FALSE for a  *)
(* descriptor without "type") and its inputs in declaration order.         *)
(***************************************************************************)
NodeIds == <<"A", "B", "C">>
\* what a reference may name: the keys, and "Z", which is no key
Targets == {"A", "B", "C", "Z"}

Ref(id, slot) == ListV(<< KeyV(id), IntV(slot) >>)
Input(k, v) == [k |-> k, v |-> v]
Node(type, inputs) == [hasType |-> TRUE, type |-> type, inputs |-> inputs]

Descriptors ==
    {Node("OMEZarrReader", << Input("file_path", StrV(<<"in.zarr">>)) >>),
     Node("OMEZarrReader", << Input("file_path", StrV(<<>>)) >>),
     Node("Const", << Input("value", IntV(5)) >>),
     Node("Const", << Input("value", ListV(<< IntV(1), IntV(2) >>)) >>),
     Node("Blur", <<>>),
     [hasType |-> FALSE, type |-> "", inputs |-> <<>>]}
    \cup {Node("OMEZarrFilter", << Input("dask_arr", Ref(src, 0)) >>) : src \in Targets}
    \cup {Node("OMEZarrWriter", << Input("dask_arr", Ref(src, 0)),
                                   Input("metadata", Ref("A", 1)) >>) : src \in Targets}
    \cup {Node("AddOne", << Input("x", Ref(src, 0)) >>) : src \in Targets}

Keys(n) == {NodeIds[k] : k \in 1..n}
Graphs ==
    UNION {{[keys |-> SubSeq(NodeIds, 1, n), node |-> f] : f \in [Keys(n) -> Descriptors]}
           : n \in 1..Len(NodeIds)}

VARIABLES
    run,        \* the number of the connection's current request
    earlier,    \* the keys whose handler an earlier run has invoked
    graph,      \* the graph of the request
    pc,         \* where execute_graph is
    todo,       \* the terminal nodes still to resolve (the for loop's rest)
    stack,      \* the frames of get_node_result, innermost last
    exc,        \* the exception in flight, or None
    results,    \* the memo of the run
    invoked,    \* per key, how often its handler was invoked
    calledWith, \* per key, the raw inputs and the arguments of its invocation
    raisedBy,   \* the keys whose handler has raised
    events,     \* what websocket.send_json has sent in this run, in order
    monitor,    \* the telemetry task
    ready,      \* the loop's queue of ready callbacks
    running,    \* "main" while the run's task holds the loop, else "loop"
    worker,     \* the executor thread
    unawaited,  \* coroutine objects created and never scheduled
    applied     \* one application of a function of the module, or NotApplied

vars == << run, earlier, graph, pc, todo, stack, exc, results, invoked, calledWith, raisedBy,
           events, monitor, ready, running, worker, unawaited, applied >>

NotApplied == [fn |-> "none"]

Idle == [state |-> "idle"]

Init ==
    /\ run = 1
    /\ earlier = {}
    /\ graph \in Graphs
    /\ pc = "start"
    /\ todo = <<>>
    /\ stack = <<>>
    /\ exc = None
    /\ results = <<>>
    /\ invoked = [n \in DOMAIN graph.node |-> 0]
    /\ calledWith = <<>>
    /\ raisedBy = {}
    /\ events = <<>>
    /\ monitor = [state |-> "none", cancelled |-> FALSE, sent |-> 0]
    /\ ready = <<>>
    /\ running = "main"
    /\ worker = Idle
    /\ unawaited = {}
    /\ applied = NotApplied

(***************************************************************************)
(* The loop and the event stream.                                          *)
(***************************************************************************)
MainWake == [task |-> "main"]
MonitorWake == [task |-> "monitor"]
ProgressTask(node_id, current, total) ==
    [task |-> "progress", node |-> node_id, current |-> current, total |-> total]

LogEvent(who) == [type |-> "log", from |-> who]
ErrorEvent(e) == [type |-> "error", message |-> e]
DoneEvent == [type |-> "done"]
ProgressEvent(node_id, p) == [type |-> "progress", taskId |-> node_id, progress |-> p]

\* await websocket.send_json(e) in the run's task: e is handed to the
\* connection at the call, so the order of the calls is the order of the
\* stream; the task either goes on or is suspended and made ready again
\* behind the queue
SendFromMain(e) ==
    /\ events' = Append(events, e)
    /\ \/ /\ running' = "main"
          /\ ready' = ready
       \/ /\ running' = "loop"
          /\ ready' = Append(ready, MainWake)

Top == stack[Len(stack)]
SetTop(f) == [stack EXCEPT ![Len(stack)] = f]
Frame(node_id) == [node |-> node_id, pc |-> "enter", i |-> 1, raw |-> <<>>, args |-> <<>>]

\* a resolver without the memo check of line 123
MemoizedNever(node_id) == FALSE

\* graph.get(node_id) is not None
InGraph(node_id) == node_id.t = "key" /\ node_id.id \in DOMAIN graph.node
\* line 123: node_id in results
Memoized(node_id) == node_id.t = "key" /\ node_id.id \in DOMAIN results

\* the frame of a call of get_node_result(node_id) is pushed, unless the
\* interpreter's recursion limit is reached
Call(node_id, caller) ==
    IF Len(stack) >= MaxDepth
    THEN /\ stack' = SetTop([caller EXCEPT !.pc = "raise"])
         /\ exc' = Exc("RecursionError")
    ELSE /\ stack' = Append(SetTop(caller), Frame(node_id))
         /\ exc' = exc

(***************************************************************************)
(* execute_graph                                                           *)
(***************************************************************************)
\* a memo that outlives the call, as a dict of the module would
SharedMemo(memo) == memo

\* line 113: results = {}, whatever an earlier call has left
NewMemo(memo) == <<>>

\* lines 112-115: the first log, the memo, the telemetry task
Start ==
    /\ pc = "start" /\ running = "main"
    /\ events' = Append(events, LogEvent("engine"))
    /\ results' = NewMemo(results)
    /\ monitor' = [monitor EXCEPT !.state = "ready"]
    /\ ready' = Append(ready, MonitorWake)
    /\ pc' = "try"
    /\ UNCHANGED << run, earlier, applied, graph, raisedBy, todo, stack, exc, invoked, calledWith, running, worker, unawaited >>

IsOutputNode(d) ==
    d.type \in DOMAIN NODE_CLASS_MAPPINGS /\ NODE_CLASS_MAPPINGS[d.type].OUTPUT_NODE

\* the keys of seq that satisfy Keep, in order
RECURSIVE Filter(_, _)
Filter(seq, keep) ==
    IF seq = <<>> THEN <<>>
    ELSE IF Head(seq) \in keep THEN <<Head(seq)>> \o Filter(Tail(seq), keep)
    ELSE Filter(Tail(seq), keep)

output_nodes(g) == Filter(g.keys, {n \in DOMAIN g.node : IsOutputNode(g.node[n])})

\* a run that resolves the first output node only
SelectedFirstOnly(g) ==
    IF g.keys = <<>> THEN <<>>
    ELSE IF output_nodes(g) = <<>> THEN << g.keys[Len(g.keys)] >>
    ELSE << Head(output_nodes(g)) >>

\* a run that resolves every node of the graph
SelectedEveryKey(g) == g.keys

\* what the run resolves: the output nodes, or else the last key
Selected(g) ==
    IF output_nodes(g) = <<>>
    THEN IF g.keys # <<>> THEN << g.keys[Len(g.keys)] >> ELSE <<>>
    ELSE output_nodes(g)

\* lines 175-180: d["type"] raises KeyError for a descriptor without type
SelectOutputs ==
    /\ pc = "try" /\ running = "main"
    /\ IF \E n \in DOMAIN graph.node : ~graph.node[n].hasType
       THEN /\ exc' = Exc("KeyError")
            /\ pc' = "finally"
            /\ todo' = todo
       ELSE /\ todo' = Selected(graph)
            /\ pc' = "next"
            /\ exc' = exc
    /\ UNCHANGED << run, earlier, applied, graph, raisedBy, stack, results, invoked, calledWith, events, monitor,
                    ready, running, worker, unawaited >>

\* lines 178, 180: the next await get_node_result(nid)
NextTerminal ==
    /\ pc = "next" /\ running = "main"
    /\ IF todo = <<>>
       THEN /\ pc' = "done"
            /\ UNCHANGED << todo, stack >>
       ELSE /\ stack' = << Frame(KeyV(Head(todo))) >>
            /\ todo' = Tail(todo)
            /\ pc' = "call"
    /\ UNCHANGED << run, earlier, applied, graph, raisedBy, exc, results, invoked, calledWith, events, monitor,
                    ready, running, worker, unawaited >>

\* line 182
SendDone ==
    /\ pc = "done" /\ running = "main"
    /\ SendFromMain(DoneEvent)
    /\ pc' = "finally"
    /\ UNCHANGED << run, earlier, applied, graph, raisedBy, todo, stack, exc, results, invoked, calledWith, monitor,
                    worker, unawaited >>

\* a finally clause that leaves the task alone
CancelSkipped(task) == task

\* monitor_task.cancel(): the task is marked, and woken if it is suspended
Cancel(task) == [task EXCEPT !.cancelled = TRUE,
                             !.state = IF @ = "sleeping" THEN "ready" ELSE @]

\* lines 184-185, and the return or the raise to the caller, which gives
\* the loop back
Finally ==
    /\ pc = "finally" /\ running = "main"
    /\ monitor' = Cancel(monitor)
    /\ ready' = IF monitor.state = "sleeping" THEN Append(ready, MonitorWake) ELSE ready
    /\ pc' = IF IsNone(exc) THEN "returned" ELSE "raised"
    /\ running' = "loop"
    /\ UNCHANGED << run, earlier, applied, graph, raisedBy, todo, stack, exc, results, invoked, calledWith, events,
                    worker, unawaited >>

\* the graph of the end-to-end scenario
ConstAddOne ==
    [keys |-> <<"A", "B">>,
     node |-> [n \in {"A", "B"} |->
                 IF n = "A" THEN Node("Const", << Input("value", IntV(5)) >>)
                 ELSE Node("AddOne", << Input("x", Ref("A", 0)) >>)]]

\* the graphs of the next request: the same graph again, or the scenario
Requests(g) == {g, ConstAddOne}

CancelledWake == [task |-> "cancelled"]
\* the ready queue when a new telemetry task takes the place of the one
\* that was cancelled: the wake-up of the old task delivers CancelledError
Superseded(q) ==
    [k \in 1..Len(q) |-> IF q[k] = MonitorWake THEN CancelledWake ELSE q[k]]

\* main.py lines 77-86: after a run that returned, the connection's loop
\* receives the next execute_graph command and calls execute_graph anew;
\* receive_json goes on at once when the command has arrived, and
\* otherwise suspends the task until it arrives.  The locals of the call
\* that returned are gone; the new call binds its own (results: line 113)
NextRequest ==
    /\ pc = "returned" /\ running = "loop"
    /\ run < MaxRuns
    /\ run' = run + 1
    /\ earlier' = earlier \cup {n \in DOMAIN invoked : invoked[n] > 0}
    /\ graph' \in Requests(graph)
    /\ pc' = "start"
    /\ todo' = <<>>
    /\ stack' = <<>>
    /\ exc' = None
    /\ invoked' = [n \in DOMAIN graph'.node |-> 0]
    /\ calledWith' = <<>>
    /\ raisedBy' = {}
    /\ events' = <<>>
    /\ monitor' = [state |-> "none", cancelled |-> FALSE, sent |-> 0]
    /\ unawaited' = {}
    /\ results' = NewMemo(results)
    /\ \/ /\ running' = "main"
          /\ ready' = Superseded(ready)
       \/ /\ running' = "loop"
          /\ ready' = Append(Superseded(ready), MainWake)
    /\ UNCHANGED << applied, worker >>

(***************************************************************************)
(* get_node_result                                                         *)
(***************************************************************************)
\* lines 133-137: what the consumer receives of src_out for slot idx
SlotSelect(src_out, idx) ==
    IF src_out.t = "tuple"
    THEN IF idx.t # "int" THEN Raises("TypeError")
         ELSE IF idx.i < Len(src_out.xs)
         THEN IF idx.i >= 0 THEN Returns(src_out.xs[idx.i + 1])
              ELSE IF -idx.i <= Len(src_out.xs)
              THEN Returns(src_out.xs[Len(src_out.xs) + idx.i + 1])
              ELSE Raises("IndexError")
         ELSE IF src_out.xs # <<>> THEN Returns(src_out.xs[1])
         ELSE Raises("IndexError")
    ELSE Returns(src_out)

\* a resolver whose recursive call lies inside its try block
CallerCatchesAlways == TRUE

\* whether the await of line 132 lies in the try block of the calling frame
CallerCatches == FALSE

\* return value to the caller: the top-level loop, or the frame waiting at
\* line 132, which selects the slot and goes on with its next input
Return(value) ==
    LET rest == SubSeq(stack, 1, Len(stack) - 1)
    IN  IF rest = <<>>
        THEN /\ stack' = <<>>
             /\ pc' = "next"
             /\ exc' = exc
        ELSE LET caller == rest[Len(rest)]
                 input == graph.node[caller.node.id].inputs[caller.i]
                 got == SlotSelect(value, input.v.xs[2])
             IN  /\ pc' = pc
                 /\ IF got.raises
                    THEN /\ stack' = [rest EXCEPT ![Len(rest)] = [caller EXCEPT !.pc = "raise"]]
                         /\ exc' = got.e
                    ELSE /\ stack' = [rest EXCEPT ![Len(rest)] =
                                        [caller EXCEPT !.pc = "inputs",
                                                       !.i = @ + 1,
                                                       !.raw = (input.k :> got.v) @@ @]]
                         /\ exc' = exc

\* lines 123-126
Enter ==
    /\ pc = "call" /\ running = "main"
    /\ stack # <<>> /\ Top.pc = "enter"
    /\ IF Memoized(Top.node)
       THEN Return(results[Top.node.id])
       ELSE /\ pc' = pc
            /\ IF ~InGraph(Top.node)
               THEN /\ stack' = SetTop([Top EXCEPT !.pc = "raise"])
                    /\ exc' = Exc("TypeError")
               ELSE IF ~graph.node[Top.node.id].hasType
               THEN /\ stack' = SetTop([Top EXCEPT !.pc = "raise"])
                    /\ exc' = Exc("KeyError")
               ELSE /\ stack' = SetTop([Top EXCEPT !.pc = "inputs"])
                    /\ exc' = exc
    /\ UNCHANGED << run, earlier, applied, graph, raisedBy, todo, results, invoked, calledWith, events, monitor,
                    ready, running, worker, unawaited >>

\* a resolver that hands every input on as a literal
IsReferenceNever(v) == FALSE

\* line 131: isinstance(v, list) and len(v) == 2
IsReference(v) == v.t = "list" /\ Len(v.xs) = 2

\* lines 130-139, one input per step
ResolveInput ==
    /\ pc = "call" /\ running = "main"
    /\ stack # <<>> /\ Top.pc = "inputs"
    /\ LET inputs == graph.node[Top.node.id].inputs
       IN  IF Top.i > Len(inputs)
           THEN /\ stack' = SetTop([Top EXCEPT !.pc = "try"])
                /\ exc' = exc
           ELSE LET v == inputs[Top.i].v
                IN  IF IsReference(v)
                    THEN Call(v.xs[1], [Top EXCEPT !.pc = "wait"])
                    ELSE /\ stack' = SetTop([Top EXCEPT !.i = @ + 1,
                                                        !.raw = (inputs[Top.i].k :> v) @@ @])
                         /\ exc' = exc
    /\ UNCHANGED << run, earlier, applied, graph, raisedBy, pc, todo, results, invoked, calledWith, events, monitor,
                    ready, running, worker, unawaited >>

\* the callback of line 152, bound to the node
CallbackV(node_id) == [t |-> "callback", node |-> node_id]

\* lines 151-155: the callback is injected when the method names it, and
\* only the arguments the method names are kept
valid_args(node_cls, func_args, node_id) ==
    LET withCb == IF "callback" \in node_cls.params
                  THEN ("callback" :> CallbackV(node_id)) @@ func_args
                  ELSE func_args
    IN  [k \in DOMAIN withCb \cap node_cls.params |-> withCb[k]]

\* lines 142-155: the class is looked up and the inputs are validated
Prepare ==
    /\ pc = "call" /\ running = "main"
    /\ stack # <<>> /\ Top.pc = "try"
    /\ LET class_name == graph.node[Top.node.id].type
       IN  IF class_name \notin DOMAIN NODE_CLASS_MAPPINGS
           THEN /\ stack' = SetTop([Top EXCEPT !.pc = "except"])
                /\ exc' = Exc("KeyError")
           ELSE LET NodeCls == NODE_CLASS_MAPPINGS[class_name]
                    checked == validate_and_prepare_inputs(NodeCls, Top.raw)
                IN  IF ~checked.ok
                    THEN /\ stack' = SetTop([Top EXCEPT !.pc = "except"])
                         /\ exc' = Exc("ValueError")
                    ELSE /\ stack' = SetTop([Top EXCEPT
                                        !.pc = "invoke",
                                        !.args = valid_args(NodeCls, checked.args, Top.node.id)])
                         /\ exc' = exc
    /\ UNCHANGED << run, earlier, applied, graph, raisedBy, pc, todo, results, invoked, calledWith, events, monitor,
                    ready, running, worker, unawaited >>

\* a method that is called on the loop's thread and keeps it until the
\* worker is done
CalledOnLoop == "main"

\* lines 160, 163: the run's task awaits the method, and the loop is free
Awaited == "loop"

\* lines 159-163: a coroutine method runs in the run's task up to its own
\* await (save_zarr: up to run_in_executor(None, run_dask)); any other
\* method is handed to the executor.  Either way the task is suspended.
Invoke ==
    /\ pc = "call" /\ running = "main"
    /\ stack # <<>> /\ Top.pc = "invoke"
    /\ LET node_id == Top.node.id
           class_name == graph.node[node_id].type
           NodeCls == NODE_CLASS_MAPPINGS[class_name]
       IN  /\ invoked' = [invoked EXCEPT ![node_id] = @ + 1]
           /\ calledWith' = (node_id :> [raw |-> Top.raw, args |-> Top.args]) @@ calledWith
           /\ IF NodeCls.coroutine /\ save_zarr_path(Top.args).raises
              THEN /\ stack' = SetTop([Top EXCEPT !.pc = "except"])
                   /\ exc' = save_zarr_path(Top.args).e
                   /\ raisedBy' = raisedBy \cup {node_id}
                   /\ UNCHANGED << worker, running >>
              ELSE /\ stack' = SetTop([Top EXCEPT !.pc = "await"])
                   /\ exc' = exc
                   /\ raisedBy' = raisedBy
                   /\ running' = Awaited
                   /\ worker' = IF NodeCls.coroutine
                                THEN [state |-> "run_dask", node |-> node_id,
                                      total |-> 0, finished |-> 0]
                                ELSE [state |-> "handler", node |-> node_id,
                                      reported |-> FALSE]
    /\ UNCHANGED << run, earlier, applied, graph, pc, todo, results, events, monitor, ready, unawaited >>

\* the value the method returns once the worker has returned
Output(frame) ==
    IF NODE_CLASS_MAPPINGS[graph.node[frame.node.id].type].coroutine
    THEN TupleV(<< save_zarr_path(frame.args).v >>)
    ELSE worker.outcome.v

\* lines 160/163 resumed, then lines 165-167
Resume ==
    /\ pc = "call" /\ running = "main"
    /\ stack # <<>> /\ Top.pc = "await"
    /\ worker.state = "finished"
    /\ worker' = Idle
    /\ IF worker.outcome.raises
       THEN /\ stack' = SetTop([Top EXCEPT !.pc = "except"])
            /\ exc' = worker.outcome.e
            /\ raisedBy' = raisedBy \cup {Top.node.id}
            /\ UNCHANGED << pc, results >>
       ELSE /\ results' = (Top.node.id :> Output(Top)) @@ results
            /\ raisedBy' = raisedBy
            /\ Return(Output(Top))
    /\ UNCHANGED << run, earlier, applied, graph, todo, invoked, calledWith, events, monitor, ready,
                    running, unawaited >>

\* lines 169-171: the error event
Except ==
    /\ pc = "call" /\ running = "main"
    /\ stack # <<>> /\ Top.pc = "except"
    /\ SendFromMain(ErrorEvent(exc.kind))
    /\ stack' = SetTop([Top EXCEPT !.pc = "raise"])
    /\ UNCHANGED << run, earlier, applied, graph, raisedBy, pc, todo, exc, results, invoked, calledWith, monitor,
                    worker, unawaited >>

\* a top-level loop that swallows the exception and goes on
OnTerminalFailureContinue == "next"

\* lines 174-184: an exception of get_node_result leaves the try block of
\* execute_graph, whose only clause is finally
OnTerminalFailure == "finally"

\* line 172, or an exception raised outside the try block: the exception
\* leaves the frame, and reaches the frame that awaits it at line 132 or
\* the try block of execute_graph
Unwind ==
    /\ pc = "call" /\ running = "main"
    /\ stack # <<>> /\ Top.pc = "raise"
    /\ LET rest == SubSeq(stack, 1, Len(stack) - 1)
       IN  IF rest = <<>>
           THEN /\ stack' = <<>>
                /\ pc' = OnTerminalFailure
           ELSE /\ stack' = [rest EXCEPT ![Len(rest)] =
                               [@ EXCEPT !.pc = IF CallerCatches THEN "except" ELSE "raise"]]
                /\ pc' = pc
    /\ UNCHANGED << run, earlier, applied, graph, raisedBy, todo, exc, results, invoked, calledWith, events, monitor,
                    ready, running, worker, unawaited >>

(***************************************************************************)
(* The loop: the callback at the head of the queue runs when no task       *)
(* holds the loop.                                                         *)
(***************************************************************************)
LoopTurn(task) == running = "loop" /\ ready # <<>> /\ Head(ready).task = task

\* the run's task is resumed
RunMain ==
    /\ LoopTurn("main")
    /\ running' = "main"
    /\ ready' = Tail(ready)
    /\ UNCHANGED << run, earlier, applied, graph, raisedBy, pc, todo, stack, exc, results, invoked, calledWith,
                    events, monitor, worker, unawaited >>

\* run_system_monitor, lines 96-105: one message and the sleep, or the
\* CancelledError that ends the task
MonitorStep ==
    /\ LoopTurn("monitor")
    /\ ready' = Tail(ready)
    /\ IF monitor.cancelled
       THEN /\ monitor' = [monitor EXCEPT !.state = "finished"]
            /\ events' = events
       ELSE /\ monitor' = [monitor EXCEPT !.state = "sleeping", !.sent = @ + 1]
            /\ events' = Append(events, LogEvent("monitor"))
    /\ UNCHANGED << run, earlier, applied, graph, raisedBy, pc, todo, stack, exc, results, invoked, calledWith,
                    running, worker, unawaited >>

\* lines 104-105: the telemetry task of an earlier run ends
CancelledStep ==
    /\ LoopTurn("cancelled")
    /\ ready' = Tail(ready)
    /\ UNCHANGED << run, earlier, applied, graph, raisedBy, pc, todo, stack, exc, results, invoked,
                    calledWith, events, monitor, running, worker, unawaited >>

\* asyncio.sleep(2) of line 103 elapses
MonitorTimer ==
    /\ monitor.state = "sleeping" /\ ~monitor.cancelled
    /\ monitor.sent < MaxLogs
    /\ monitor' = [monitor EXCEPT !.state = "ready"]
    /\ ready' = Append(ready, MonitorWake)
    /\ UNCHANGED << run, earlier, applied, graph, raisedBy, pc, todo, stack, exc, results, invoked, calledWith,
                    events, running, worker, unawaited >>

\* a callback that divides by the total it is given
TotalAsGiven(total) == total

\* line 118: if total == 0: total = 1
TotalNonZero(total) == IF total = 0 THEN 1 ELSE total

\* line 119: int((current / total) * 100), for total > 0
Percent(current, total) == TruncDiv(current * 100, TotalNonZero(total))

\* progress_callback(node_id, current, total), lines 117-120: the event it
\* sends, or the exception of the division
progress_callback(node_id, current, total) ==
    IF TotalNonZero(total) = 0 THEN Raises("ZeroDivisionError")
    ELSE Returns(ProgressEvent(node_id, Percent(current, total)))

\* progress_callback, lines 117-120, run as a task of the loop
ProgressStep ==
    /\ LoopTurn("progress")
    /\ ready' = Tail(ready)
    /\ events' = Append(events, ProgressEvent(Head(ready).node,
                                              Percent(Head(ready).current, Head(ready).total)))
    /\ UNCHANGED << run, earlier, applied, graph, raisedBy, pc, todo, stack, exc, results, invoked, calledWith,
                    monitor, running, worker, unawaited >>

(***************************************************************************)
(* The executor thread.                                                    *)
(***************************************************************************)
WorkerClass == NODE_CLASS_MAPPINGS[graph.node[worker.node].type]

\* the future of run_in_executor resolves: the waiting task is made ready
Finished(outcome) == [state |-> "finished", outcome |-> outcome]

\* a handler on the worker pool calls callback(current, total): the lambda
\* of line 152 returns the coroutine object of progress_callback
HandlerCallback ==
    /\ worker.state = "handler"
    /\ "callback" \in WorkerClass.params
    /\ ~worker.reported
    /\ \E report \in {<<1, 2>>, <<0, 0>>} :
          unawaited' = unawaited \cup {ProgressTask(worker.node, report[1], report[2])}
    /\ worker' = [worker EXCEPT !.reported = TRUE]
    /\ UNCHANGED << run, earlier, applied, graph, raisedBy, pc, todo, stack, exc, results, invoked, calledWith,
                    events, monitor, ready, running >>

\* the handler returns or raises
HandlerFinish ==
    /\ worker.state = "handler"
    /\ "callback" \in WorkerClass.params => worker.reported
    /\ \E outcome \in SyncOutcomes(graph.node[worker.node].type, Top.args) :
          worker' = Finished(outcome)
    /\ ready' = Append(ready, MainWake)
    /\ UNCHANGED << run, earlier, applied, graph, raisedBy, pc, todo, stack, exc, results, invoked, calledWith,
                    events, monitor, running, unawaited >>

\* DaskProgressBridge._send, lines 47-51
BridgeSend(queue, node_id, progress) == Append(queue, ProgressTask(node_id, progress, 100))

\* a bridge whose last report is scheduled after the future has resolved
BridgeFinishLate(queue, node_id) == BridgeSend(Append(queue, MainWake), node_id, 100)

\* DaskProgressBridge._finish, lines 44-45, and then the return or the
\* raise of run_dask
BridgeFinish(queue, node_id) == Append(BridgeSend(queue, node_id, 100), MainWake)

\* run_dask, lines 239-257: to_zarr of what is no array raises before any
\* task; else _start_state, lines 33-35
DaskStart ==
    /\ worker.state = "run_dask" /\ worker.total = 0
    /\ IF ~run_dask_starts(Top.args)
       THEN /\ worker' = Finished(Raises("AttributeError"))
            /\ ready' = Append(ready, MainWake)
       ELSE \E n \in 1..MaxDaskTasks :
            /\ worker' = [worker EXCEPT !.total = n]
            /\ ready' = BridgeSend(ready, worker.node, 0)
    /\ UNCHANGED << run, earlier, applied, graph, raisedBy, pc, todo, stack, exc, results, invoked, calledWith,
                    events, monitor, running, unawaited >>

\* _posttask, lines 37-42
DaskPostTask ==
    /\ worker.state = "run_dask" /\ worker.finished < worker.total
    /\ LET finished_tasks == worker.finished + 1
           progress == TruncDiv(finished_tasks * 100, worker.total)
       IN  /\ worker' = [worker EXCEPT !.finished = finished_tasks]
           /\ ready' = IF finished_tasks % 5 = 0 \/ progress = 100
                       THEN BridgeSend(ready, worker.node, progress)
                       ELSE ready
    /\ UNCHANGED << run, earlier, applied, graph, raisedBy, pc, todo, stack, exc, results, invoked, calledWith,
                    events, monitor, running, unawaited >>

\* a task of the computation raises: _finish, and run_dask raises
DaskTaskFails ==
    /\ worker.state = "run_dask" /\ worker.total > 0
    /\ worker.finished < worker.total
    /\ worker' = Finished(Raises("OSError"))
    /\ ready' = BridgeFinish(ready, worker.node)
    /\ UNCHANGED << run, earlier, applied, graph, raisedBy, pc, todo, stack, exc, results, invoked, calledWith,
                    events, monitor, running, unawaited >>

\* the computation ends: _finish, and run_dask returns
DaskFinish ==
    /\ worker.state = "run_dask" /\ worker.total > 0
    /\ worker.finished = worker.total
    /\ worker' = Finished(Returns(None))
    /\ ready' = BridgeFinish(ready, worker.node)
    /\ UNCHANGED << run, earlier, applied, graph, raisedBy, pc, todo, stack, exc, results, invoked, calledWith,
                    events, monitor, running, unawaited >>

Next ==
    \/ Start
    \/ NextRequest
    \/ CancelledStep
    \/ SelectOutputs
    \/ NextTerminal
    \/ SendDone
    \/ Finally
    \/ Enter
    \/ ResolveInput
    \/ Prepare
    \/ Invoke
    \/ Resume
    \/ Except
    \/ Unwind
    \/ RunMain
    \/ MonitorStep
    \/ MonitorTimer
    \/ ProgressStep
    \/ HandlerCallback
    \/ HandlerFinish
    \/ DaskStart
    \/ DaskPostTask
    \/ DaskTaskFails
    \/ DaskFinish

Spec == Init /\ [][Next]_vars

(***************************************************************************)
(* The functions of the module applied on their own: the validator, the    *)
(* slot selection of get_node_result and progress_callback, each on        *)
(* inputs drawn from the sets below.                                       *)
(***************************************************************************)
\* the largest count a handler reports to its callback
MaxCount == 3

\* a node class with two required STRING parameters, one of them with a
\* default, and an optional parameter without one
Typed ==
    [required |-> << Param("name", "STRING"),
                     ParamDefault("title", "STRING", StrV(<<"x">>)) >>,
     optional |-> << Param("note", "STRING") >>,
     OUTPUT_NODE |-> FALSE,
     coroutine |-> FALSE,
     params |-> {"name", "title", "note"}]

\* a node class without INPUT_TYPES (lines 20-21)
Bare ==
    [required |-> <<>>,
     optional |-> <<>>,
     OUTPUT_NODE |-> FALSE,
     coroutine |-> FALSE,
     params |-> {}]

\* a node class whose parameters are optional, one with a default and one
\* without
Tuned ==
    [required |-> <<>>,
     optional |-> << ParamDefault("level", "INT", IntV(1)), Param("tag", "STRING") >>,
     OUTPUT_NODE |-> FALSE,
     coroutine |-> FALSE,
     params |-> {"level", "tag"}]

NodeClasses == {OMEZarrReader, OMEZarrFilter, Typed, Tuned, Bare}

\* the values a request supplies for a parameter
RawValues ==
    {None, StrV(<<>>), StrV(<<"a", "b", "c">>), StrV(<<"3", ".", "1", "4">>),
     StrV(<<"7">>), IntV(3), FltV(25, 1), ArrV("in.zarr")}

\* the names a request may supply for a node of class node_cls: its
\* parameters and the undeclared "extra"
RawNames(node_cls) ==
    Names(node_cls.required) \cup Names(node_cls.optional) \cup {"extra"}

\* what a handler returns
SourceOutputs ==
    {TupleV(<< IntV(1), IntV(2) >>), TupleV(<< IntV(1) >>), TupleV(<<>>),
     IntV(7), ListV(<< IntV(1), IntV(2) >>), None}

\* the second element of a reference
SlotIndexes == {IntV(i) : i \in -3..5} \cup {StrV(<<"0">>), None}

Pending == [t |-> "pending"]

Validation(node_cls, raw_inputs) ==
    [fn |-> "validate_and_prepare_inputs", node_cls |-> node_cls, raw_inputs |-> raw_inputs,
     out |-> Pending]
Selection(src_out, idx) == [fn |-> "slot", src_out |-> src_out, idx |-> idx, out |-> Pending]
Report(node_id, current, total) ==
    [fn |-> "progress_callback", node_id |-> node_id, current |-> current, total |-> total,
     out |-> Pending]

FnInit ==
    /\ \/ \E node_cls \in NodeClasses : \E S \in SUBSET RawNames(node_cls) :
             \E raw_inputs \in [S -> RawValues] : applied = Validation(node_cls, raw_inputs)
       \/ \E src_out \in SourceOutputs, idx \in SlotIndexes : applied = Selection(src_out, idx)
       \/ \E k \in 1..Len(NodeIds), current \in 0..MaxCount, total \in 0..MaxCount :
             applied = Report(NodeIds[k], current, total)
    /\ run = 1
    /\ earlier = {}
    /\ graph = [keys |-> <<>>, node |-> <<>>]
    /\ pc = "start"
    /\ todo = <<>>
    /\ stack = <<>>
    /\ exc = None
    /\ results = <<>>
    /\ invoked = <<>>
    /\ calledWith = <<>>
    /\ raisedBy = {}
    /\ events = <<>>
    /\ monitor = [state |-> "none", cancelled |-> FALSE, sent |-> 0]
    /\ ready = <<>>
    /\ running = "main"
    /\ worker = Idle
    /\ unawaited = {}

Unapplied(fn) == applied.fn = fn /\ applied.out = Pending

ApplyValidate ==
    /\ Unapplied("validate_and_prepare_inputs")
    /\ applied' = [applied EXCEPT
                     !.out = validate_and_prepare_inputs(applied.node_cls, applied.raw_inputs)]
    /\ UNCHANGED << run, earlier, graph, raisedBy, pc, todo, stack, exc, results, invoked,
                    calledWith, events, monitor, ready, running, worker, unawaited >>

ApplySlotSelect ==
    /\ Unapplied("slot")
    /\ applied' = [applied EXCEPT !.out = SlotSelect(applied.src_out, applied.idx)]
    /\ UNCHANGED << run, earlier, graph, raisedBy, pc, todo, stack, exc, results, invoked,
                    calledWith, events, monitor, ready, running, worker, unawaited >>

ApplyProgress ==
    /\ Unapplied("progress_callback")
    /\ applied' = [applied EXCEPT
                     !.out = progress_callback(applied.node_id, applied.current, applied.total)]
    /\ UNCHANGED << run, earlier, graph, raisedBy, pc, todo, stack, exc, results, invoked,
                    calledWith, events, monitor, ready, running, worker, unawaited >>

FnNext ==
    \/ ApplyValidate
    \/ ApplySlotSelect
    \/ ApplyProgress

FnSpec == FnInit /\ [][FnNext]_vars

(***************************************************************************)
(* Properties of a run.                                                    *)
(***************************************************************************)
EventsOf(type) == {k \in 1..Len(events) : events[k].type = type}
ErrorCount == Cardinality(EventsOf("error"))
DoneCount == Cardinality(EventsOf("done"))
Ended == pc \in {"returned", "raised"}

\* the keys a descriptor references, and the keys that reference a key
Sources(d) ==
    {d.inputs[k].v.xs[1].id :
        k \in {j \in 1..Len(d.inputs) :
                 IsReference(d.inputs[j].v) /\ d.inputs[j].v.xs[1].t = "key"}}
Consumers(a) == {b \in DOMAIN graph.node \ {a} : a \in Sources(graph.node[b])}

\* C1: no handler is invoked twice in a run; a node whose result is in the
\* memo, and so every node that two or more other resolved nodes take as
\* an input source, has had its handler invoked exactly once.
C1_AtMostOnce ==
    /\ \A n \in DOMAIN invoked : invoked[n] <= 1
    /\ \A a \in DOMAIN results : invoked[a] = 1
    /\ \A a \in DOMAIN graph.node :
          Cardinality(Consumers(a) \cap DOMAIN results) >= 2 => invoked[a] = 1

\* a run has returned in which A fed both B and C
C1_Witness ==
    /\ pc = "returned"
    /\ \E a \in DOMAIN graph.node :
          Cardinality(Consumers(a) \cap DOMAIN results) >= 2 /\ invoked[a] = 1

\* C2: once a handler has raised, the run never sends done, sends at most
\* one error event, and has sent exactly one when the exception leaves
\* execute_graph.
C2_FailureScenario ==
    raisedBy # {} =>
        /\ DoneCount = 0
        /\ ErrorCount <= 1
        /\ pc # "returned"
        /\ pc \in {"finally", "raised"} => ErrorCount = 1

\* the handler of a node that is not itself resolved by the top-level loop
\* (it is reached through a dependent node) has raised, and the run is over
C2_Witness ==
    /\ pc = "raised"
    /\ \E a \in raisedBy : Consumers(a) # {} /\ ~IsOutputNode(graph.node[a])
                           /\ a # graph.keys[Len(graph.keys)]
    /\ ErrorCount = 1

\* C3: once an exception has been raised in a run, no handler is invoked.
C3_FailFast == [][~IsNone(exc) => invoked' = invoked]_vars

\* a run has failed while a terminal node was still pending, and a node
\* that depends on the failed one has not run
C3_Witness ==
    /\ pc = "raised"
    /\ todo # <<>>
    /\ invoked[Head(todo)] = 0
    /\ \E a \in raisedBy : \E b \in Consumers(a) : invoked[b] = 0

\* C4: no node is resolved while it is in flight, and no run ends by the
\* interpreter's recursion limit.
C4_CycleDetection ==
    /\ \A i, j \in 1..Len(stack) : i # j => stack[i].node # stack[j].node
    /\ ~(exc.t = "exc" /\ exc.kind = "RecursionError")

\* C5: a run that ends by an exception has sent exactly one error event.
C5_EveryErrorSurfaced == pc = "raised" => ErrorCount = 1

\* the keys the run has to resolve, read off the registry and the graph
TerminalKeys ==
    LET marked == {n \in DOMAIN graph.node :
                     /\ graph.node[n].type \in DOMAIN NODE_CLASS_MAPPINGS
                     /\ NODE_CLASS_MAPPINGS[graph.node[n].type].OUTPUT_NODE}
    IN  IF marked = {} THEN {graph.keys[Len(graph.keys)]} ELSE marked

\* what a consumer is due of a source's result for a slot
SlotOf(result, slot) ==
    IF result.t = "tuple"
    THEN IF slot < Len(result.xs) THEN result.xs[slot + 1] ELSE result.xs[1]
    ELSE result

\* C6: a run that returns has sent exactly one done and no error; when done
\* is sent no handler has raised, every terminal node's handler has run
\* once and completed, every invoked handler got for each reference input
\* the selected slot of its source's result, and in the scenario graph B's
\* result is 6.
C6_SuccessfulRun ==
    /\ pc = "returned" => DoneCount = 1 /\ ErrorCount = 0
    /\ DoneCount <= 1
    /\ DoneCount = 1 =>
          /\ ErrorCount = 0
          /\ raisedBy = {}
          /\ \A n \in TerminalKeys : n \in DOMAIN results /\ invoked[n] = 1
          /\ \A n \in DOMAIN calledWith :
                \A k \in 1..Len(graph.node[n].inputs) :
                   LET input == graph.node[n].inputs[k]
                   IN  IsReference(input.v) =>
                          calledWith[n].raw[input.k] =
                             SlotOf(results[input.v.xs[1].id], input.v.xs[2].i)
          /\ graph = ConstAddOne => results["B"] = IntV(6)

\* the scenario graph has run to its done event
C6_Witness ==
    /\ pc = "returned"
    /\ graph = ConstAddOne
    /\ DoneCount = 1
    /\ results["B"] = IntV(6)

\* C7: when execute_graph has returned or raised, the telemetry task it
\* created has been cancelled.
C7_TelemetryCancelled ==
    Ended => monitor.state # "none" /\ monitor.cancelled

\* a run has ended by an exception that no handler raised and that was
\* not reported, and the task is cancelled
C7_Witness ==
    /\ pc = "raised"
    /\ raisedBy = {}
    /\ ErrorCount = 0
    /\ monitor.cancelled

\* C8: when execute_graph has returned or raised, the telemetry task has
\* finished.
C8_TelemetryAwaited == Ended => monitor.state = "finished"

\* C9: when the run is over, every report a worker-pool handler made
\* through the injected callback has been sent as a progress event of its
\* node.
C9_ProgressDelivered ==
    Ended =>
        \A report \in unawaited :
           \E k \in EventsOf("progress") : events[k].taskId = report.node

\* C10: no progress event follows the done or the error event.
C10_StreamTerminates ==
    \A i, j \in 1..Len(events) :
       (i < j /\ events[i].type \in {"done", "error"}) => events[j].type # "progress"

\* a writer's reports, the last of them scheduled right before run_dask
\* returned, have all been sent, and then done
C10_Witness ==
    /\ Ended
    /\ ready = <<>>
    /\ EventsOf("progress") # {}
    /\ \E k \in EventsOf("done") : \A j \in EventsOf("progress") : j < k

\* what an exception or an event says of the node it is about
Identifies(what, node_id) ==
    /\ "node" \in DOMAIN what /\ what.node = node_id
    /\ "node_type" \in DOMAIN what /\ what.node_type = graph.node[node_id].type

\* C11: the exception a handler's failure propagates, and the error event
\* that reports it, carry the id and the type of the failing node.
C11_HandlerFailureDetail ==
    \A a \in raisedBy :
       /\ Identifies(exc, a)
       /\ \A k \in EventsOf("error") : Identifies(events[k], a)

\* an application of fn that has returned or raised
Applied(fn) == applied.fn = fn /\ applied.out # Pending

\* what a request supplies under a name, None when it supplies nothing
Supplied(name) ==
    IF name \in DOMAIN applied.raw_inputs THEN applied.raw_inputs[name] ELSE None
Blank(v) == v = None \/ v = StrV(<<>>)
\* the value of a required parameter after default substitution
Substituted(config) ==
    IF ~Blank(Supplied(config.name)) THEN Supplied(config.name)
    ELSE IF config.hasDefault THEN config.default
    ELSE IF config.tag = "ENUM" /\ config.choices # <<>> THEN config.choices[1]
    ELSE Supplied(config.name)
\* the required STRING parameters that are blank after substitution
BlankStrings ==
    {applied.node_cls.required[k].name : k \in
        {j \in 1..Len(applied.node_cls.required) :
            /\ applied.node_cls.required[j].tag = "STRING"
            /\ Blank(Substituted(applied.node_cls.required[j]))}}

\* C12: the validator raises exactly when a required STRING parameter is
\* None or "" after default substitution, and the error names such a
\* parameter; a required parameter of another type never makes it raise.
C12_RequiredFieldRejection ==
    Applied("validate_and_prepare_inputs") =>
        /\ ~applied.out.ok <=> BlankStrings # {}
        /\ ~applied.out.ok => applied.out.name \in BlankStrings

\* a required STRING parameter without default is not supplied and is named
\* by the error, while the other required STRING parameter took its default
C12_Witness ==
    /\ Applied("validate_and_prepare_inputs")
    /\ applied.node_cls = Typed
    /\ "name" \notin DOMAIN applied.raw_inputs
    /\ applied.out = [ok |-> FALSE, name |-> "name"]

\* the numeric conversion of the values of the model, where there is one
Converted(tag, v) ==
    CASE tag = "INT" /\ v = StrV(<<"7">>)                 -> IntV(7)
      [] tag = "INT" /\ v.t = "int"                        -> v
      [] tag = "INT" /\ v = FltV(25, 1)                    -> IntV(2)
      [] tag = "INT" /\ v = FltV(1, 0)                     -> IntV(1)
      [] tag = "FLOAT" /\ v = StrV(<<"3", ".", "1", "4">>) -> FltV(314, 2)
      [] tag = "FLOAT" /\ v = StrV(<<"7">>)                -> FltV(7, 0)
      [] tag = "FLOAT" /\ v.t = "int"                      -> FltV(v.i, 0)
      [] tag = "FLOAT" /\ v.t = "float"                    -> v
      [] OTHER                                             -> v

\* the declared parameters with their configs, an optional one over a
\* required one of the same name
Declared ==
    LET cls == applied.node_cls
    IN  {cls.optional[k] : k \in 1..Len(cls.optional)}
        \cup {c \in {cls.required[k] : k \in 1..Len(cls.required)} :
                c.name \notin Names(cls.optional)}

\* C13: a string or number held by an INT or FLOAT parameter is replaced by
\* its numeric conversion when there is one and is left as it is otherwise
\* ("3.14" becomes 3.14 for FLOAT, "abc" stays "abc" for INT); validation
\* fails for a blank required STRING only, never for a conversion.
C13_CoercionLeniency ==
    Applied("validate_and_prepare_inputs") =>
        /\ applied.out.ok \/ BlankStrings # {}
        /\ applied.out.ok =>
             \A c \in Declared :
                LET v == IF c.name \in Names(applied.node_cls.optional)
                         THEN (IF Supplied(c.name) = None /\ c.hasDefault
                               THEN c.default ELSE Supplied(c.name))
                         ELSE Substituted(c)
                IN  c.tag \in {"INT", "FLOAT"} /\ v.t \in {"str", "int", "float"}
                      => applied.out.args[c.name] = Converted(c.tag, v)

\* "abc" supplied for the INT chunk_multiple of a reader comes out of a
\* successful validation as "abc"
C13_Witness ==
    /\ Applied("validate_and_prepare_inputs")
    /\ applied.node_cls = OMEZarrReader
    /\ Supplied("chunk_multiple") = StrV(<<"a", "b", "c">>)
    /\ applied.out.ok
    /\ applied.out.args["chunk_multiple"] = StrV(<<"a", "b", "c">>)

\* C14: a reference to slot idx of a source receives element idx of a
\* tuple Result when idx is in range, element 0 when it is not, and the
\* whole Result when it is a single value; the selection never raises.
C14_SlotSelection ==
    Applied("slot") =>
        /\ ~applied.out.raises
        /\ applied.out.v =
             IF applied.src_out.t = "tuple"
             THEN IF applied.idx.t = "int"
                     /\ applied.idx.i \in 0..(Len(applied.src_out.xs) - 1)
                  THEN applied.src_out.xs[applied.idx.i + 1]
                  ELSE applied.src_out.xs[1]
             ELSE applied.src_out

\* C15: the progress event of progress_callback(node_id, current, total)
\* carries taskId = node_id and an integer progress in 0..100, whatever
\* counts the handler reports.
C15_ProgressRange ==
    Applied("progress_callback") =>
        /\ ~applied.out.raises
        /\ applied.out.v.taskId = applied.node_id
        /\ applied.out.v.progress \in 0..100

\* C16: a total of 0 is treated as 1: the callback does not raise, the
\* percentage is that of current / 1, and (0, 0) gives 0.
C16_ZeroTotal ==
    Applied("progress_callback") /\ applied.total = 0 =>
        /\ ~applied.out.raises
        /\ applied.out.v.progress = applied.current * 100
        /\ applied.current = 0 => applied.out.v.progress = 0

\* progress_callback("A", 0, 0) has sent progress 0
C16_Witness ==
    /\ Applied("progress_callback")
    /\ applied.current = 0 /\ applied.total = 0
    /\ applied.out = Returns(ProgressEvent(applied.node_id, 0))

RECURSIVE Upstream(_)
\* the keys that the keys of S reach through their references
Upstream(S) ==
    LET T == S \cup UNION {Sources(graph.node[n]) \cap DOMAIN graph.node : n \in S}
    IN  IF T = S THEN S ELSE Upstream(T)

\* C17: the run resolves the nodes whose class is marked OUTPUT_NODE, or
\* the last-declared node when no class is marked: every top-level call
\* is for such a node, a run that returns has resolved all of them, and no
\* handler is invoked for a node that they do not reach.
C17_TerminalSelection ==
    /\ stack # <<>> => stack[1].node = KeyV(stack[1].node.id) /\ stack[1].node.id \in TerminalKeys
    /\ pc = "returned" => TerminalKeys \subseteq DOMAIN results
    /\ \A n \in DOMAIN invoked : invoked[n] > 0 => n \in Upstream(TerminalKeys)

\* a run of three nodes without output node has returned: the last node
\* is resolved and another node was never invoked
C17_Witness ==
    /\ pc = "returned"
    /\ Len(graph.keys) = 3
    /\ \A n \in DOMAIN graph.node : ~IsOutputNode(graph.node[n])
    /\ invoked["C"] = 1
    /\ \E n \in DOMAIN graph.node : invoked[n] = 0

Busy == worker.state \notin {"idle", "finished"}

\* C19: at most one handler is executing at any time, that of the
\* innermost frame; while it runs on the worker the run's task is suspended
\* and the loop is free for the telemetry task.
C19_SequentialResolution ==
    /\ Cardinality({k \in 1..Len(stack) : stack[k].pc = "await"}) <= 1
    /\ Busy => /\ stack # <<>> /\ Top.pc = "await" /\ Top.node.id = worker.node
               /\ running = "loop"

\* the telemetry task has sent a log event while a handler runs on the
\* worker
C19_Witness ==
    /\ worker.state = "handler"
    /\ monitor.sent >= 1
    /\ events[Len(events)] = LogEvent("monitor")

\* an input value that is no reference to a node: anything but a list of
\* a key and a slot
Literal(v) == ~(v.t = "list" /\ Len(v.xs) = 2 /\ v.xs[1].t = "key" /\ v.xs[2].t = "int")

\* C20: an input whose value is a literal, a two-element list included, is
\* handed to the validator as it is, and get_node_result is called for
\* nothing but the keys of references.
C20_LiteralInputs ==
    /\ \A k \in 1..Len(stack) : stack[k].node.t = "key"
    /\ \A n \in DOMAIN calledWith :
          \A k \in 1..Len(graph.node[n].inputs) :
             LET input == graph.node[n].inputs[k]
             IN  Literal(input.v) => calledWith[n].raw[input.k] = input.v

C21_OutputShape ==
    Applied("validate_and_prepare_inputs") =>
        /\ BlankStrings = {} => applied.out.ok
        /\ applied.out.ok =>
             /\ DOMAIN applied.out.args =
                   {applied.node_cls.required[k].name : k \in 1..Len(applied.node_cls.required)}
                   \cup {applied.node_cls.optional[k].name
                           : k \in 1..Len(applied.node_cls.optional)}
             /\ \A k \in 1..Len(applied.node_cls.optional) :
                   LET c == applied.node_cls.optional[k]
                   IN  Supplied(c.name) = None =>
                          applied.out.args[c.name] = IF c.hasDefault THEN c.default ELSE None

\* an undeclared input is supplied and no optional one: the result has the
\* two declared keys, the default of level and None for tag
C21_Witness ==
    /\ Applied("validate_and_prepare_inputs")
    /\ applied.node_cls = Tuned
    /\ DOMAIN applied.raw_inputs = {"extra"}
    /\ applied.raw_inputs["extra"] # None
    /\ applied.out = [ok |-> TRUE, args |-> [n \in {"level", "tag"} |->
                                                IF n = "level" THEN IntV(1) ELSE None]]

\* the keys that the inputs of node n refer to
Referenced(n) ==
    {graph.node[n].inputs[k].v.xs[1].id :
        k \in {j \in 1..Len(graph.node[n].inputs) : ~Literal(graph.node[n].inputs[j].v)}}

\* the nodes whose handler is running
Executing == {stack[k].node.id : k \in {j \in 1..Len(stack) : stack[j].pc = "await"}}

\* the nodes whose handler has completed successfully in this run
Completed == {n \in DOMAIN invoked : invoked[n] > 0} \ (raisedBy \cup Executing)

\* C22: a handler is invoked only when every node its inputs refer to has
\* completed successfully and is in the memo; the memo has an entry
\* exactly for the nodes whose handler has completed successfully in this
\* run, so none for a node whose handler raised; and within a run an entry
\* is neither changed nor removed.
C22_MemoSoundness ==
    /\ [](/\ \A n \in DOMAIN calledWith :
                Referenced(n) \subseteq DOMAIN results \cap Completed
          /\ DOMAIN results = Completed
          /\ raisedBy \cap DOMAIN results = {})
    /\ [][run' = run =>
             \A a \in DOMAIN results : a \in DOMAIN results' /\ results'[a] = results[a]]_vars

\* B's handler has raised after A's completed: A is in the memo and B is
\* not
C22_Witness ==
    /\ "B" \in DOMAIN graph.node
    /\ "A" \in Referenced("B")
    /\ raisedBy = {"B"}
    /\ DOMAIN results = {"A"}
    /\ invoked["A"] = 1 /\ invoked["B"] = 1

====
